---- MODULE Spec2Model ----
(***************************************************************************)
(* State-machine model of reprozip/reprozip/main.py (usnistgov/corr-       *)
(* reprozip): the testrun subcommand, the Processes section of print_db,   *)
(* the trace subcommand and the CoRR registry client (link_to_corr,        *)
(* put_project, push_record, upload_file).                                 *)
(***************************************************************************)
EXTENDS Integers, Sequences, FiniteSets, TLC

VARIABLES
  \* ---- testrun ----
  t_pc,        \* position inside testrun()
  database,    \* TRUE iff the temporary sqlite3 file exists on disk
  c,           \* value returned by _pytracer.execute, Null before
  t_exc,       \* exception in flight inside the try block, None if none
  t_out,       \* what testrun printed / called, in order
  t_remove,    \* outcome of each database.remove() call made, in order
  t_result,    \* how testrun ended: None, "returned" or the error raised
  \* ---- print_db, Processes section ----
  p_pc,        \* position inside the Processes section
  p_rows,      \* number of rows fetched from the cursor so far
  r_exit,      \* exitcode column of the row last fetched
  r_parent,    \* parent column of the row last fetched
  r_id,        \* id column of the row last fetched
  p_line,      \* the data line last printed
  \* ---- trace subcommand and registry client, one entry per invocation ----
  pc,           \* position of each invocation
  config_path,  \* args.config
  project_name, \* args.project
  disk,         \* working directory: trace store, configuration, bundle.rpz
  calls,        \* the stages trace() has called, in order, with how each ended
  requests,     \* the registry requests issued, in order, with the response
  stdout,       \* what link_to_corr and push_record printed, in order
  project,      \* id of the local variable project, Null if unset
  record_id,    \* local variable record_id, Null if unset
  outcome,      \* None while running, "returned", or the error raised
  \* ---- the registry ----
  projects,     \* the registry's projects, in creation order
  records,      \* the registry's records, in creation order
  \* ---- shell_escape ----
  s_pc,         \* "call" before shell_escape(s) runs, "returned" after
  s_arg,        \* the argument s, a sequence of characters
  escaped,      \* the value returned
  \* ---- print_db, Connections section ----
  k_pc,             \* position inside the Connections section
  conn_table,       \* the connections table, in timestamp order
  connections,      \* the rows the SELECT hands to the loop, in order
  k_rows,           \* number of rows the loop has gone through
  header_shown,     \* local variable header_shown
  current_family,   \* local variable current_family
  current_protocol, \* local variable current_protocol
  k_out             \* the lines printed, in order

varsTestrun == <<t_pc, database, c, t_exc, t_out, t_remove, t_result>>
varsPrintDb == <<p_pc, p_rows, r_exit, r_parent, r_id, p_line>>
varsTrace == <<pc, config_path, project_name, disk, calls, requests, stdout,
               project, record_id, outcome, projects, records>>
varsShell == <<s_pc, s_arg, escaped>>
varsConn == <<k_pc, conn_table, connections, k_rows, header_shown,
              current_family, current_protocol, k_out>>
vars == <<varsTestrun, varsPrintDb, varsTrace, varsShell, varsConn>>

\* Python's None where a string is expected, and where an integer is expected
None == "None"
Null == -1

\* ------------------------------------------------------------------------
\* Integers and text
\* ------------------------------------------------------------------------

\* 0x0100, the bit that marks a status as "killed by a signal"
SignalBit == 256
\* 0xFF, the mask of the signal number / exit code
LowByte == 255

\* The statuses the tracer hands out: an exit code 0..255, or 0x0100|signal.
ExitStatus == 0 .. (2 * SignalBit - 1)

RECURSIVE BitAnd(_, _)
\* Python's a & b on non-negative integers
BitAnd(a, b) ==
  IF a = 0 \/ b = 0 THEN 0
  ELSE (IF a % 2 = 1 /\ b % 2 = 1 THEN 1 ELSE 0)
       + 2 * BitAnd(a \div 2, b \div 2)

DigitChar(d) == CASE d = 0 -> "0" [] d = 1 -> "1" [] d = 2 -> "2"
                  [] d = 3 -> "3" [] d = 4 -> "4" [] d = 5 -> "5"
                  [] d = 6 -> "6" [] d = 7 -> "7" [] d = 8 -> "8"
                  [] d = 9 -> "9"

RECURSIVE Decimal(_)
\* "%d" % n for n >= 0, as a sequence of characters
Decimal(n) == IF n < 10 THEN <<DigitChar(n)>>
              ELSE Decimal(n \div 10) \o <<DigitChar(n % 10)>>

RECURSIVE Spaces(_)
Spaces(n) == IF n <= 0 THEN <<>> ELSE <<" ">> \o Spaces(n - 1)

\* format spec "<w": left-aligned in a field of at least w characters
LeftAlign(s, w) == s \o Spaces(w - Len(s))
\* format spec " w" on an integer: right-aligned, space in the sign position
RightAlign(s, w) == Spaces(w - Len(s)) \o s

\* "{0: <2d}".format(n)
FormatLeft2d(n) == LeftAlign(Decimal(n), 2)
\* "{0: Wd}".format(n), n >= 0: the space flag puts a blank before the digits
FormatSpaceD(n, w) == RightAlign(<<" ">> \o Decimal(n), w)

\* ------------------------------------------------------------------------
\* testrun
\* ------------------------------------------------------------------------

\* One thing testrun wrote or called: its kind and the number it carries
Item(k, n) == [kind |-> k, num |-> n]
NoWarning == Item("none", <<>>)

\* ExitWarning with the signal number left unmasked
ExitWarning_Unmasked(x) ==
  IF x /= 0
  THEN IF BitAnd(x, SignalBit) /= 0
       THEN Item("signal", Decimal(x))
       ELSE Item("code", Decimal(x))
  ELSE NoWarning

\* The warning testrun prints for status x (lines 200-205)
ExitWarning(x) ==
  IF x /= 0
  THEN IF BitAnd(x, SignalBit) /= 0
       THEN Item("signal", Decimal(BitAnd(x, LowByte)))
       ELSE Item("code", Decimal(x))
  ELSE NoWarning

\* What an exception raised in the finally clause does to the one in flight:
\* the new one is what leaves the function.
FinallyRaise(inflight, new) == new

InitTestrun ==
  /\ t_pc = "start"
  /\ database = FALSE
  /\ c = Null
  /\ t_exc = None
  /\ t_out = <<>>
  /\ t_remove = <<>>
  /\ t_result = None

\* fd, database = Path.tempfile(...); os.close(fd)
Tempfile ==
  /\ t_pc = "start"
  /\ database' = TRUE
  /\ t_pc' = "execute"
  /\ UNCHANGED <<c, t_exc, t_out, t_remove, t_result>>
  /\ UNCHANGED <<varsPrintDb, varsTrace, varsShell, varsConn>>

\* c = _pytracer.execute(...): returns a status, then the rule is printed
ExecuteReturns ==
  /\ t_pc = "execute"
  /\ \E s \in ExitStatus : c' = s
  /\ t_out' = Append(t_out, Item("rule", <<>>))
  /\ t_pc' = "print_db"
  /\ UNCHANGED <<database, t_exc, t_remove, t_result>>
  /\ UNCHANGED <<varsPrintDb, varsTrace, varsShell, varsConn>>

\* ExecuteRaises without the try/finally: the error leaves testrun at once
ExecuteRaises_NoFinally ==
  /\ t_pc = "execute"
  /\ t_exc' = "engine"
  /\ t_result' = "engine"
  /\ t_pc' = "done"
  /\ UNCHANGED <<database, c, t_out, t_remove>>
  /\ UNCHANGED <<varsPrintDb, varsTrace, varsShell, varsConn>>

\* _pytracer.execute(...) raises: control goes to the finally clause
ExecuteRaises ==
  /\ t_pc = "execute"
  /\ t_exc' = "engine"
  /\ t_pc' = "finally"
  /\ UNCHANGED <<database, c, t_out, t_remove, t_result>>
  /\ UNCHANGED <<varsPrintDb, varsTrace, varsShell, varsConn>>

\* print_db(database) returns
PrintDbReturns ==
  /\ t_pc = "print_db"
  /\ t_out' = Append(t_out, Item("print_db", <<>>))
  /\ t_pc' = "warn"
  /\ UNCHANGED <<database, c, t_exc, t_remove, t_result>>
  /\ UNCHANGED <<varsPrintDb, varsTrace, varsShell, varsConn>>

\* print_db(database) raises (unreadable store, NULL exitcode, closed stdout)
PrintDbRaises ==
  /\ t_pc = "print_db"
  /\ t_out' = Append(t_out, Item("print_db", <<>>))
  /\ t_exc' = "report"
  /\ t_pc' = "finally"
  /\ UNCHANGED <<database, c, t_remove, t_result>>
  /\ UNCHANGED <<varsPrintDb, varsTrace, varsShell, varsConn>>

\* Warn turning a non-zero status into an error of testrun
Warn_Raises ==
  /\ t_pc = "warn"
  /\ t_out' = IF ExitWarning(c) = NoWarning THEN t_out
              ELSE Append(t_out, ExitWarning(c))
  /\ t_exc' = IF c /= 0 THEN "exit" ELSE t_exc
  /\ t_pc' = "finally"
  /\ UNCHANGED <<database, c, t_remove, t_result>>
  /\ UNCHANGED <<varsPrintDb, varsTrace, varsShell, varsConn>>

\* if c != 0: ... print warning
Warn ==
  /\ t_pc = "warn"
  /\ t_out' = IF ExitWarning(c) = NoWarning THEN t_out
              ELSE Append(t_out, ExitWarning(c))
  /\ t_pc' = "finally"
  /\ UNCHANGED <<database, c, t_exc, t_remove, t_result>>
  /\ UNCHANGED <<varsPrintDb, varsTrace, varsShell, varsConn>>

\* finally: database.remove() succeeds
RemoveOk ==
  /\ t_pc = "finally"
  /\ database' = FALSE
  /\ t_remove' = Append(t_remove, "ok")
  /\ t_result' = IF t_exc = None THEN "returned" ELSE t_exc
  /\ t_pc' = "done"
  /\ UNCHANGED <<c, t_exc, t_out>>
  /\ UNCHANGED <<varsPrintDb, varsTrace, varsShell, varsConn>>

\* finally: database.remove() raises, the file stays
RemoveRaises ==
  /\ t_pc = "finally"
  /\ t_remove' = Append(t_remove, "raised")
  /\ t_result' = FinallyRaise(t_exc, "remove")
  /\ t_pc' = "done"
  /\ UNCHANGED <<database, c, t_exc, t_out>>
  /\ UNCHANGED <<varsPrintDb, varsTrace, varsShell, varsConn>>

\* ------------------------------------------------------------------------
\* print_db, Processes section
\* ------------------------------------------------------------------------

\* Most rows one SELECT returns
MaxRows == 2
\* Largest process id / parent id in a row
MaxId == 1

\* f_exit of lines 83-86
FormatExit(x) ==
  IF BitAnd(x, SignalBit) /= 0
  THEN <<" ", "s", "i", "g">> \o FormatLeft2d(x) \o <<" ">>
  ELSE Spaces(4) \o FormatLeft2d(x) \o <<" ">>

\* f_parent of lines 79-82
FormatParent(p) ==
  IF p /= Null THEN FormatSpaceD(p, 7) \o <<" ">> ELSE Spaces(8)

\* f_id of line 78
FormatId(i) == FormatSpaceD(i, 5) \o <<" ">>

\* The columns of one printed data line (lines 93-94); the timestamp and
\* cpu time columns do not depend on the exit status and are left out.
Line(i, p, x) == [f_id |-> i, f_parent |-> p, f_exit |-> x]
NoLine == Line(<<>>, <<>>, <<>>)

InitPrintDb ==
  /\ p_pc = "header"
  /\ p_rows = 0
  /\ r_exit = Null
  /\ r_parent = Null
  /\ r_id = Null
  /\ p_line = NoLine

\* print("\nProcesses:") and the three header lines
PrintHeader ==
  /\ p_pc = "header"
  /\ p_pc' = "rows"
  /\ UNCHANGED <<p_rows, r_exit, r_parent, r_id, p_line>>
  /\ UNCHANGED <<varsTestrun, varsTrace, varsShell, varsConn>>

\* one iteration of the for loop over the cursor
PrintProcessRow ==
  /\ p_pc = "rows"
  /\ p_rows < MaxRows
  /\ \E i \in 1 .. MaxId, p \in {Null} \cup (1 .. MaxId), x \in ExitStatus :
       /\ r_id' = i
       /\ r_parent' = p
       /\ r_exit' = x
       /\ p_line' = Line(FormatId(i), FormatParent(p), FormatExit(x))
  /\ p_rows' = p_rows + 1
  /\ UNCHANGED p_pc
  /\ UNCHANGED <<varsTestrun, varsTrace, varsShell, varsConn>>

\* the cursor is exhausted: cur.close()
CloseCursor ==
  /\ p_pc = "rows"
  /\ p_pc' = "closed"
  /\ UNCHANGED <<p_rows, r_exit, r_parent, r_id, p_line>>
  /\ UNCHANGED <<varsTestrun, varsTrace, varsShell, varsConn>>

\* ------------------------------------------------------------------------
\* trace subcommand and registry client
\* ------------------------------------------------------------------------

\* Number of invocations of the trace subcommand that share one registry
NumProcs == 2
Procs == 1 .. NumProcs

\* args.config: absent, empty, or the path of a readable configuration
ConfigPaths == {None, "", "corr.json"}
\* args.project
ProjectNames == {"proj", "Proj"}
\* HTTP statuses the registry answers with
HttpStatus == {200, 201, 500}
\* Shapes of a response body: the expected envelope, text that is not JSON,
\* JSON that lacks content / content.id / content.head.id
Bodies == {"ok", "not_json", "no_field"}

\* The registry's side of a call: it carries the call out iff it answers 2xx
Is2xx(status) == status \div 100 = 2
\* The answers the registry can give; the expected envelope comes only
\* with a call that was carried out
Responses ==
  {r \in [status : HttpStatus, body : Bodies] : r.body = "ok" => Is2xx(r.status)}

\* "if config_path:" accepting every value
Truthy_Always(path) == TRUE

\* "if config_path:" of line 238
Truthy(path) == path /= None /\ path /= ""

\* "response.status == 200" accepting every status
StatusIs200_Any(status) == TRUE

\* "response.status == 200" of lines 256 and 318
StatusIs200(status) == status = 200

\* The error json.loads(content)['content'] ... raises on a malformed body
ParseError(body) == IF body = "not_json" THEN "ValueError" ELSE "KeyError"

RECURSIVE Issued(_)
\* Number of requests the invocations 1..n have issued so far
Issued(n) == IF n = 0 THEN 0 ELSE Len(requests[n]) + Issued(n - 1)

\* One request with the response it got: content is what a well-formed
\* body carries (the listed projects, the created project, the created
\* record), seq the place of the request among all the registry received
Req(call, arg, name, r, content) ==
  [call |-> call, arg |-> arg, name |-> name,
   status |-> r.status, body |-> r.body,
   content |-> IF r.body = "ok" THEN content ELSE <<>>,
   seq |-> Issued(NumProcs) + 1]

\* One stage call of trace(): ev is "returned" or "raised", or "called" for
\* link_to_corr, whose end is recorded in outcome
Call(stage, ev) == [stage |-> stage, ev |-> ev]
Ended(ok) == IF ok THEN "returned" ELSE "raised"

\* One print() call
Printed(kind, call, body) == [kind |-> kind, call |-> call, body |-> body]

\* Names compared without regard to case
Lower(name) == IF name = "Proj" THEN "proj" ELSE name
Matches_IgnoreCase(list, name) ==
  {i \in 1 .. Len(list) : Lower(list[i].name) = Lower(name)}

\* Lines 258-264: the indexes of the listed projects whose name equals name
Matches(list, name) == {i \in 1 .. Len(list) : list[i].name = name}
Min(S) == CHOOSE x \in S : \A y \in S : x <= y

\* The directory a run starts in: each artifact absent or left by an
\* earlier run
Disks == [store : {"absent", "old"}, config : {"absent", "old"},
          bundle : {"absent", "old"}]
NoDisk == [store |-> "absent", config |-> "absent", bundle |-> "absent"]

\* Registries a run can find
InitialRegistries ==
  { <<>>,
    <<[id |-> 1, name |-> "Proj"]>>,
    <<[id |-> 1, name |-> "Proj"], [id |-> 2, name |-> "proj"]>> }

\* No invocation is running
InitIdle ==
  /\ pc = [p \in Procs |-> "off"]
  /\ config_path = [p \in Procs |-> None]
  /\ project_name = [p \in Procs |-> "proj"]
  /\ disk = [p \in Procs |-> NoDisk]
  /\ calls = [p \in Procs |-> <<>>]
  /\ requests = [p \in Procs |-> <<>>]
  /\ stdout = [p \in Procs |-> <<>>]
  /\ project = [p \in Procs |-> Null]
  /\ record_id = [p \in Procs |-> Null]
  /\ outcome = [p \in Procs |-> None]
  /\ projects = <<>>
  /\ records = <<>>

\* Invocation 1 is about to run trace(args)
InitTrace ==
  /\ pc = [p \in Procs |-> IF p = 1 THEN "trace" ELSE "off"]
  /\ \E cp \in ConfigPaths :
       config_path = [p \in Procs |-> IF p = 1 THEN cp ELSE None]
  /\ \E pn \in ProjectNames :
       project_name = [p \in Procs |-> IF p = 1 THEN pn ELSE "proj"]
  /\ \E d \in Disks : disk = [p \in Procs |-> IF p = 1 THEN d ELSE NoDisk]
  /\ calls = [p \in Procs |-> <<>>]
  /\ requests = [p \in Procs |-> <<>>]
  /\ stdout = [p \in Procs |-> <<>>]
  /\ project = [p \in Procs |-> Null]
  /\ record_id = [p \in Procs |-> Null]
  /\ outcome = [p \in Procs |-> None]
  /\ projects \in InitialRegistries
  /\ records = <<>>

\* The two invocations whose publications meet at the registry
Publishers == {1, 2}
Packed == [store |-> "new", config |-> "new", bundle |-> "new"]
Staged == <<Call("trace", "returned"), Call("write_configuration", "returned"),
            Call("pack", "returned")>>

\* Each publisher has traced, configured and packed in a directory of its
\* own and is about to call link_to_corr with a configuration
InitPublish ==
  /\ pc = [p \in Procs |-> IF p \in Publishers THEN "link_to_corr" ELSE "off"]
  /\ config_path = [p \in Procs |->
                      IF p \in Publishers THEN "corr.json" ELSE None]
  /\ \E pn \in [Publishers -> ProjectNames] :
       project_name = [p \in Procs |->
                         IF p \in Publishers THEN pn[p] ELSE "proj"]
  /\ disk = [p \in Procs |-> IF p \in Publishers THEN Packed ELSE NoDisk]
  /\ calls = [p \in Procs |-> IF p \in Publishers THEN Staged ELSE <<>>]
  /\ requests = [p \in Procs |-> <<>>]
  /\ stdout = [p \in Procs |-> <<>>]
  /\ project = [p \in Procs |-> Null]
  /\ record_id = [p \in Procs |-> Null]
  /\ outcome = [p \in Procs |-> None]
  /\ projects \in InitialRegistries
  /\ records = <<>>

\* The function ends: it returns, or the error how leaves it
Finish(p, how) ==
  /\ pc' = [pc EXCEPT ![p] = "done"]
  /\ outcome' = [outcome EXCEPT ![p] = how]

Goto(p, where) ==
  /\ pc' = [pc EXCEPT ![p] = where]
  /\ UNCHANGED outcome

\* What reprozip.tracer.trace.trace leaves in the store
TraceEffect(d, ok) ==
  IF ok THEN {[d EXCEPT !.store = "new"]}
  ELSE {d, [d EXCEPT !.store = "partial"]}

\* What write_configuration(overwrite=False) leaves: an existing
\* configuration is kept
ConfigEffect(d, ok) ==
  IF ok /\ d.config = "absent" THEN [d EXCEPT !.config = "new"] ELSE d

\* What reprozip.pack.pack leaves at bundle.rpz
PackEffect(d, ok) == IF ok THEN [d EXCEPT !.bundle = "new"] ELSE d

\* Lines 216-224: reprozip.tracer.trace.trace(...)
Trace(p) ==
  /\ pc[p] = "trace"
  /\ \E ok \in BOOLEAN :
       /\ calls' = [calls EXCEPT ![p] = Append(@, Call("trace", Ended(ok)))]
       /\ \E d \in TraceEffect(disk[p], ok) : disk' = [disk EXCEPT ![p] = d]
       /\ IF ok THEN Goto(p, "write_configuration")
                ELSE Finish(p, "TraceError")
  /\ UNCHANGED <<config_path, project_name, requests, stdout, project,
                 record_id, projects, records>>
  /\ UNCHANGED <<varsTestrun, varsPrintDb, varsShell, varsConn>>

\* Lines 225-228: reprozip.tracer.trace.write_configuration(...)
WriteConfiguration(p) ==
  /\ pc[p] = "write_configuration"
  /\ \E ok \in BOOLEAN :
       /\ calls' = [calls EXCEPT ![p] =
                      Append(@, Call("write_configuration", Ended(ok)))]
       /\ disk' = [disk EXCEPT ![p] = ConfigEffect(@, ok)]
       /\ IF ok THEN Goto(p, "remove_bundle")
                ELSE Finish(p, "ConfigError")
  /\ UNCHANGED <<config_path, project_name, requests, stdout, project,
                 record_id, projects, records>>
  /\ UNCHANGED <<varsTestrun, varsPrintDb, varsShell, varsConn>>

\* RemoveBundle leaving an earlier bundle in place
RemoveBundle_Skips(p) ==
  /\ pc[p] = "remove_bundle"
  /\ Goto(p, "pack")
  /\ UNCHANGED <<config_path, project_name, disk, calls, requests, stdout,
                 project, record_id, projects, records>>
  /\ UNCHANGED <<varsTestrun, varsPrintDb, varsShell, varsConn>>

\* Lines 230-233: if os.path.exists("bundle.rpz"): os.remove("bundle.rpz")
RemoveBundle(p) ==
  /\ pc[p] = "remove_bundle"
  /\ disk' = [disk EXCEPT ![p].bundle = "absent"]
  /\ Goto(p, "pack")
  /\ UNCHANGED <<config_path, project_name, calls, requests, stdout, project,
                 record_id, projects, records>>
  /\ UNCHANGED <<varsTestrun, varsPrintDb, varsShell, varsConn>>

\* Pack going on to the next stage when packing raised
Pack_IgnoresFailure(p) ==
  /\ pc[p] = "pack"
  /\ \E ok \in BOOLEAN :
       /\ calls' = [calls EXCEPT ![p] = Append(@, Call("pack", Ended(ok)))]
       /\ disk' = [disk EXCEPT ![p] = PackEffect(@, ok)]
       /\ Goto(p, "link_to_corr")
  /\ UNCHANGED <<config_path, project_name, requests, stdout, project,
                 record_id, projects, records>>
  /\ UNCHANGED <<varsTestrun, varsPrintDb, varsShell, varsConn>>

\* Line 234 and lines 345-354: pack(args)
Pack(p) ==
  /\ pc[p] = "pack"
  /\ \E ok \in BOOLEAN :
       /\ calls' = [calls EXCEPT ![p] = Append(@, Call("pack", Ended(ok)))]
       /\ disk' = [disk EXCEPT ![p] = PackEffect(@, ok)]
       /\ IF ok THEN Goto(p, "link_to_corr")
                ELSE Finish(p, "PackError")
  /\ UNCHANGED <<config_path, project_name, requests, stdout, project,
                 record_id, projects, records>>
  /\ UNCHANGED <<varsTestrun, varsPrintDb, varsShell, varsConn>>

\* Line 235 and lines 237-254, 272-273: link_to_corr up to the first request
LinkToCorr(p) ==
  /\ pc[p] = "link_to_corr"
  /\ calls' = [calls EXCEPT ![p] = Append(@, Call("link_to_corr", "called"))]
  /\ IF Truthy(config_path[p])
     THEN /\ stdout' = [stdout EXCEPT ![p] = Append(@, Printed("url", "", ""))]
          /\ Goto(p, "http_get")
     ELSE /\ stdout' = [stdout EXCEPT ![p] =
                          Append(@, Printed("no_config", "", ""))]
          /\ Finish(p, "returned")
  /\ UNCHANGED <<config_path, project_name, disk, requests, project,
                 record_id, projects, records>>
  /\ UNCHANGED <<varsTestrun, varsPrintDb, varsShell, varsConn>>

\* Lines 255-265, 270-271 and 275-278: the project list and what is done
\* with it
HttpGet(p) ==
  /\ pc[p] = "http_get"
  /\ \E r \in Responses :
       /\ requests' = [requests EXCEPT ![p] = Append(@, Req("list", 0, "", r, projects))]
       /\ \/ /\ ~StatusIs200(r.status)
             /\ stdout' = [stdout EXCEPT ![p] =
                             Append(@, Printed("body", "list", r.body))]
             /\ Finish(p, "returned")
             /\ UNCHANGED project
          \/ /\ StatusIs200(r.status)
             /\ r.body /= "ok"
             /\ Finish(p, ParseError(r.body))
             /\ UNCHANGED <<stdout, project>>
          \/ /\ StatusIs200(r.status)
             /\ r.body = "ok"
             /\ LET m == Matches(projects, project_name[p])
                IN IF Len(projects) > 0 /\ m /= {}
                   THEN /\ project' = [project EXCEPT ![p] = projects[Min(m)].id]
                        /\ Goto(p, "push_record")
                   ELSE /\ Goto(p, "put_project")
                        /\ UNCHANGED project
             /\ UNCHANGED stdout
  /\ UNCHANGED <<config_path, project_name, disk, calls, record_id, projects,
                 records>>
  /\ UNCHANGED <<varsTestrun, varsPrintDb, varsShell, varsConn>>

\* PutProject looking the name up again and creating only when it is
\* still absent
PutProject_Rechecks(p) ==
  /\ pc[p] = "put_project"
  /\ LET m == Matches(projects, project_name[p])
     IN IF m /= {}
        THEN /\ project' = [project EXCEPT ![p] = projects[Min(m)].id]
             /\ Goto(p, "push_record")
             /\ UNCHANGED <<requests, projects>>
        ELSE \E r \in Responses :
               LET new == [id |-> Len(projects) + 1, name |-> project_name[p]]
               IN /\ requests' = [requests EXCEPT ![p] =
                                    Append(@, Req("create_project", 0,
                                                  project_name[p], r, <<new>>))]
                  /\ projects' = IF Is2xx(r.status) THEN Append(projects, new)
                                 ELSE projects
                  /\ IF r.body = "ok"
                     THEN /\ project' = [project EXCEPT ![p] = new.id]
                          /\ Goto(p, "push_record")
                     ELSE /\ Finish(p, ParseError(r.body))
                          /\ UNCHANGED project
  /\ UNCHANGED <<config_path, project_name, disk, calls, stdout, record_id,
                 records>>
  /\ UNCHANGED <<varsTestrun, varsPrintDb, varsShell, varsConn>>

\* Lines 266-267 and 280-285: put_project and the assignment of its result
PutProject(p) ==
  /\ pc[p] = "put_project"
  /\ \E r \in Responses :
       LET new == [id |-> Len(projects) + 1, name |-> project_name[p]]
       IN /\ requests' = [requests EXCEPT ![p] =
                            Append(@, Req("create_project", 0,
                                          project_name[p], r, <<new>>))]
          /\ projects' = IF Is2xx(r.status) THEN Append(projects, new)
                         ELSE projects
          /\ IF r.body = "ok"
             THEN /\ project' = [project EXCEPT ![p] = new.id]
                  /\ Goto(p, "push_record")
             ELSE /\ Finish(p, ParseError(r.body))
                  /\ UNCHANGED project
  /\ UNCHANGED <<config_path, project_name, disk, calls, stdout, record_id,
                 records>>
  /\ UNCHANGED <<varsTestrun, varsPrintDb, varsShell, varsConn>>

\* PushRecord attaching to a record the project already has instead of
\* creating one
PushRecord_Reuses(p) ==
  /\ pc[p] = "push_record"
  /\ LET had == {i \in 1 .. Len(records) : records[i].project = project[p]}
     IN IF had /= {}
        THEN /\ record_id' = [record_id EXCEPT ![p] = Min(had)]
             /\ Goto(p, "upload_file")
             /\ UNCHANGED <<requests, records, stdout>>
        ELSE \E r \in Responses :
                 LET new == [id |-> Len(records) + 1, project |-> project[p],
                             files |-> 0]
                 IN /\ requests' = [requests EXCEPT ![p] =
                                      Append(@, Req("create_record", project[p], "", r,
                                                    <<[id |-> new.id, name |-> ""]>>))]
                    /\ records' = IF Is2xx(r.status) THEN Append(records, new)
                                  ELSE records
                    /\ \/ /\ ~StatusIs200(r.status)
                          /\ stdout' = [stdout EXCEPT ![p] =
                                          Append(@, Printed("body", "create_record",
                                                            r.body))]
                          /\ Finish(p, "returned")
                          /\ UNCHANGED record_id
                       \/ /\ StatusIs200(r.status)
                          /\ r.body /= "ok"
                          /\ Finish(p, ParseError(r.body))
                          /\ UNCHANGED <<stdout, record_id>>
                       \/ /\ StatusIs200(r.status)
                          /\ r.body = "ok"
                          /\ record_id' = [record_id EXCEPT ![p] = new.id]
                          /\ Goto(p, "upload_file")
                          /\ UNCHANGED stdout
  /\ UNCHANGED <<config_path, project_name, disk, calls, project, projects>>
  /\ UNCHANGED <<varsTestrun, varsPrintDb, varsShell, varsConn>>

\* PushRecord handing the project id, not the record id, to the upload
PushRecord_WrongId(p) ==
  /\ pc[p] = "push_record"
  /\ \E r \in Responses :
       LET new == [id |-> Len(records) + 1, project |-> project[p],
                   files |-> 0]
       IN /\ requests' = [requests EXCEPT ![p] =
                            Append(@, Req("create_record", project[p], "", r,
                                          <<[id |-> new.id, name |-> ""]>>))]
          /\ records' = IF Is2xx(r.status) THEN Append(records, new)
                        ELSE records
          /\ \/ /\ ~StatusIs200(r.status)
                /\ stdout' = [stdout EXCEPT ![p] =
                                Append(@, Printed("body", "create_record",
                                                  r.body))]
                /\ Finish(p, "returned")
                /\ UNCHANGED record_id
             \/ /\ StatusIs200(r.status)
                /\ r.body /= "ok"
                /\ Finish(p, ParseError(r.body))
                /\ UNCHANGED <<stdout, record_id>>
             \/ /\ StatusIs200(r.status)
                /\ r.body = "ok"
                /\ record_id' = [record_id EXCEPT ![p] = project[p]]
                /\ Goto(p, "upload_file")
                /\ UNCHANGED stdout
  /\ UNCHANGED <<config_path, project_name, disk, calls, project, projects>>
  /\ UNCHANGED <<varsTestrun, varsPrintDb, varsShell, varsConn>>

\* Lines 269 and 287-325: push_record up to the upload
PushRecord(p) ==
  /\ pc[p] = "push_record"
  /\ \E r \in Responses :
       LET new == [id |-> Len(records) + 1, project |-> project[p],
                   files |-> 0]
       IN /\ requests' = [requests EXCEPT ![p] =
                            Append(@, Req("create_record", project[p], "", r,
                                          <<[id |-> new.id, name |-> ""]>>))]
          /\ records' = IF Is2xx(r.status) THEN Append(records, new)
                        ELSE records
          /\ \/ /\ ~StatusIs200(r.status)
                /\ stdout' = [stdout EXCEPT ![p] =
                                Append(@, Printed("body", "create_record",
                                                  r.body))]
                /\ Finish(p, "returned")
                /\ UNCHANGED record_id
             \/ /\ StatusIs200(r.status)
                /\ r.body /= "ok"
                /\ Finish(p, ParseError(r.body))
                /\ UNCHANGED <<stdout, record_id>>
             \/ /\ StatusIs200(r.status)
                /\ r.body = "ok"
                /\ record_id' = [record_id EXCEPT ![p] = new.id]
                /\ Goto(p, "upload_file")
                /\ UNCHANGED stdout
  /\ UNCHANGED <<config_path, project_name, disk, calls, project, projects>>
  /\ UNCHANGED <<varsTestrun, varsPrintDb, varsShell, varsConn>>

\* UploadFile deleting the bundle once it has been sent
UploadFile_Consumes(p) ==
  /\ pc[p] = "upload_file"
  /\ \/ /\ disk[p].bundle = "absent"
        /\ Finish(p, "IOError")
        /\ UNCHANGED <<requests, records>>
     \/ /\ disk[p].bundle /= "absent"
        /\ \E r \in Responses :
             /\ requests' = [requests EXCEPT ![p] =
                               Append(@, Req("upload", record_id[p], "", r,
                                             <<>>))]
             /\ records' =
                  IF Is2xx(r.status)
                  THEN [records EXCEPT ![record_id[p]].files = @ + 1]
                  ELSE records
        /\ Finish(p, "returned")
  /\ disk' = [disk EXCEPT ![p].bundle = "absent"]
  /\ UNCHANGED <<config_path, project_name, calls, stdout, project,
                 record_id, projects>>
  /\ UNCHANGED <<varsTestrun, varsPrintDb, varsShell, varsConn>>

\* Lines 322 and 327-331: upload_file; its response is not looked at
UploadFile(p) ==
  /\ pc[p] = "upload_file"
  /\ \/ /\ disk[p].bundle = "absent"
        /\ Finish(p, "IOError")
        /\ UNCHANGED <<requests, records>>
     \/ /\ disk[p].bundle /= "absent"
        /\ \E r \in Responses :
             /\ requests' = [requests EXCEPT ![p] =
                               Append(@, Req("upload", record_id[p], "", r,
                                             <<>>))]
             /\ records' =
                  IF Is2xx(r.status)
                  THEN [records EXCEPT ![record_id[p]].files = @ + 1]
                  ELSE records
        /\ Finish(p, "returned")
  /\ UNCHANGED <<config_path, project_name, disk, calls, stdout, project,
                 record_id, projects>>
  /\ UNCHANGED <<varsTestrun, varsPrintDb, varsShell, varsConn>>

\* ------------------------------------------------------------------------
\* shell_escape
\* ------------------------------------------------------------------------

\* Longest argument examined
MaxLen == 3
\* Line 44: string.whitespace, here its space, tab and newline
Whitespace == {" ", "\t", "\n"}
\* Line 44: the characters that call for quoting
Special == Whitespace \cup {"*", "$", "\\", "\"", "'"}
\* The characters arguments are made of
Alphabet == Special \cup {"a"}
Tokens == UNION {[1 .. n -> Alphabet] : n \in 0 .. MaxLen}

\* str.replace(old, new) for a one-character old
RECURSIVE Replace(_, _, _)
Replace(str, old, new) ==
  IF str = <<>> THEN <<>>
  ELSE (IF Head(str) = old THEN new ELSE <<Head(str)>>)
         \o Replace(Tail(str), old, new)

\* Line 44: any(c in s for c in string.whitespace + '*$\\"\'')
NeedsQuoting(str) == \E i \in 1 .. Len(str) : str[i] \in Special

\* shell_escape replacing the backslashes last
shell_escape_BackslashLast(str) ==
  IF NeedsQuoting(str)
  THEN <<"\"">>
         \o Replace(Replace(Replace(str, "\"", <<"\\", "\"">>),
                            "$", <<"\\", "$">>),
                    "\\", <<"\\", "\\">>)
         \o <<"\"">>
  ELSE str

\* Lines 44-49
shell_escape(str) ==
  IF NeedsQuoting(str)
  THEN <<"\"">>
         \o Replace(Replace(Replace(str, "\\", <<"\\", "\\">>),
                            "\"", <<"\\", "\"">>),
                    "$", <<"\\", "$">>)
         \o <<"\"">>
  ELSE str

InitShellEscape ==
  /\ s_pc = "call"
  /\ s_arg \in Tokens
  /\ escaped = <<>>

\* No argument is escaped
InitNoShellEscape ==
  /\ s_pc = "off"
  /\ s_arg = <<>>
  /\ escaped = <<>>

\* Lines 118 and 120: one call shell_escape(a)
ShellEscape ==
  /\ s_pc = "call"
  /\ escaped' = shell_escape(s_arg)
  /\ s_pc' = "returned"
  /\ UNCHANGED s_arg
  /\ UNCHANGED <<varsTestrun, varsPrintDb, varsTrace, varsConn>>

\* ------------------------------------------------------------------------
\* print_db, Connections section
\* ------------------------------------------------------------------------

\* Largest number of rows in the connections table
MaxConn == 3
\* Column inbound: 0 for a connection made, 1 for one accepted
Directions == {0, 1}
Families == {"AF_INET", "AF_INET6"}
Protocols == {"TCP", "UDP"}
Addresses == {"1.2.3.4", "5.6.7.8"}
\* A row of the table; its timestamp is its position in the table
ConnRows == [inbound : Directions, family : Families,
             protocol : Protocols, address : Addresses]
Tables == UNION {[1 .. n -> ConnRows] : n \in 0 .. MaxConn}
\* ORDER BY family compares the text
FamilyRank(f) == IF f = "AF_INET" THEN 1 ELSE 2

\* SELECT DISTINCT inbound, family, protocol, address
Distinct(table) == {table[i] : i \in 1 .. Len(table)}
\* The timestamp each distinct row is sorted by: that of any one of the
\* table rows it stands for
Stamps(table) ==
  {ts \in [Distinct(table) -> 1 .. Len(table)] :
     \A d \in Distinct(table) : table[ts[d]] = d}
\* ORDER BY inbound, family, timestamp
Before(ts, d, e) ==
  \/ d.inbound < e.inbound
  \/ /\ d.inbound = e.inbound
     /\ \/ FamilyRank(d.family) < FamilyRank(e.family)
        \/ /\ d.family = e.family
           /\ ts[d] < ts[e]
Ordered(rows, ts) ==
  [i \in 1 .. Cardinality(rows) |->
     CHOOSE d \in rows :
       Cardinality({e \in rows : Before(ts, e, d)}) = i - 1]

\* The SELECT without DISTINCT
Select_All(table) ==
  LET idx == 1 .. Len(table)
      before(i, j) ==
        \/ table[i].inbound < table[j].inbound
        \/ /\ table[i].inbound = table[j].inbound
           /\ \/ FamilyRank(table[i].family) < FamilyRank(table[j].family)
              \/ /\ table[i].family = table[j].family
                 /\ i < j
  IN {[i \in idx |->
         table[CHOOSE j \in idx :
                 Cardinality({k \in idx : before(k, j)}) = i - 1]]}

\* Lines 150-155: the results the SELECT can give for a table
Select(table) == {Ordered(Distinct(table), ts) : ts \in Stamps(table)}

Out(kind, text, row) == [kind |-> kind, text |-> text, row |-> row]
Title(inbound) ==
  IF inbound /= 0 THEN "Incoming connections:" ELSE "Remote connections:"
Opt(cond, line) == IF cond THEN <<line>> ELSE <<>>

InitConnections ==
  /\ k_pc = "query"
  /\ conn_table \in Tables
  /\ connections = <<>>
  /\ k_rows = 0
  /\ header_shown = Null
  /\ current_family = None
  /\ current_protocol = None
  /\ k_out = <<>>

\* The Connections section is not run
InitNoConnections ==
  /\ k_pc = "off"
  /\ conn_table = <<>>
  /\ connections = <<>>
  /\ k_rows = 0
  /\ header_shown = Null
  /\ current_family = None
  /\ current_protocol = None
  /\ k_out = <<>>

\* Lines 149-157: the query and the initial values of the loop's state
QueryConnections ==
  /\ k_pc = "query"
  /\ connections' \in Select(conn_table)
  /\ header_shown' = -1
  /\ current_family' = None
  /\ current_protocol' = None
  /\ k_pc' = "rows"
  /\ UNCHANGED <<conn_table, k_rows, k_out>>
  /\ UNCHANGED <<varsTestrun, varsPrintDb, varsTrace, varsShell>>

\* The loop body keeping current_family and current_protocol across a
\* change of the enclosing group
PrintConnection_NoReset ==
  /\ k_pc = "rows"
  /\ k_rows < Len(connections)
  /\ LET row == k_rows + 1
         r == connections[row]
         title == header_shown < r.inbound
         family == current_family /= r.family
         protocol == current_protocol /= r.protocol
     IN /\ header_shown' = IF title THEN r.inbound ELSE header_shown
        /\ current_family' = r.family
        /\ current_protocol' = r.protocol
        /\ k_out' = k_out
                      \o Opt(title, Out("title", Title(r.inbound), row))
                      \o Opt(family, Out("family", r.family, row))
                      \o Opt(protocol, Out("protocol", r.protocol, row))
                      \o <<Out("address", r.address, row)>>
        /\ k_rows' = row
  /\ UNCHANGED <<k_pc, conn_table, connections>>
  /\ UNCHANGED <<varsTestrun, varsPrintDb, varsTrace, varsShell>>

\* Lines 158-171: one iteration of the loop
PrintConnection ==
  /\ k_pc = "rows"
  /\ k_rows < Len(connections)
  /\ LET row == k_rows + 1
         r == connections[row]
         title == header_shown < r.inbound
         family_was == IF title THEN None ELSE current_family
         family == family_was /= r.family
         protocol_was == IF family THEN None ELSE current_protocol
         protocol == protocol_was /= r.protocol
     IN /\ header_shown' = IF title THEN r.inbound ELSE header_shown
        /\ current_family' = IF family THEN r.family ELSE family_was
        /\ current_protocol' = IF protocol THEN r.protocol ELSE protocol_was
        /\ k_out' = k_out
                      \o Opt(title, Out("title", Title(r.inbound), row))
                      \o Opt(family, Out("family", r.family, row))
                      \o Opt(protocol, Out("protocol", r.protocol, row))
                      \o <<Out("address", r.address, row)>>
        /\ k_rows' = row
  /\ UNCHANGED <<k_pc, conn_table, connections>>
  /\ UNCHANGED <<varsTestrun, varsPrintDb, varsTrace, varsShell>>

\* Line 173: the rows are exhausted, conn.close()
CloseConnection ==
  /\ k_pc = "rows"
  /\ k_rows = Len(connections)
  /\ k_pc' = "closed"
  /\ UNCHANGED <<conn_table, connections, k_rows, header_shown,
                 current_family, current_protocol, k_out>>
  /\ UNCHANGED <<varsTestrun, varsPrintDb, varsTrace, varsShell>>

\* ------------------------------------------------------------------------
\* Specifications
\* ------------------------------------------------------------------------

\* testrun()
NextTestrun ==
  \/ Tempfile
  \/ ExecuteReturns
  \/ ExecuteRaises
  \/ PrintDbReturns
  \/ PrintDbRaises
  \/ Warn
  \/ RemoveOk
  \/ RemoveRaises

\* print_db(), Processes section
NextPrintDb ==
  \/ PrintHeader
  \/ PrintProcessRow
  \/ CloseCursor

\* trace(args), one invocation
NextTrace ==
  \/ \E p \in Procs : Trace(p)
  \/ \E p \in Procs : WriteConfiguration(p)
  \/ \E p \in Procs : RemoveBundle(p)
  \/ \E p \in Procs : Pack(p)
  \/ \E p \in Procs : LinkToCorr(p)
  \/ \E p \in Procs : HttpGet(p)
  \/ \E p \in Procs : PutProject(p)
  \/ \E p \in Procs : PushRecord(p)
  \/ \E p \in Procs : UploadFile(p)

\* Nothing has run yet, and no trace invocation will
Init ==
  InitTestrun /\ InitPrintDb /\ InitIdle /\ InitNoShellEscape
    /\ InitNoConnections
\* Nothing has run yet, and invocation 1 is about to
InitPipeline ==
  InitTestrun /\ InitPrintDb /\ InitTrace /\ InitNoShellEscape
    /\ InitNoConnections
\* Every invocation is about to publish
InitPublishers ==
  InitTestrun /\ InitPrintDb /\ InitPublish /\ InitNoShellEscape
    /\ InitNoConnections
\* An argument is about to be escaped
InitEscape ==
  InitTestrun /\ InitPrintDb /\ InitIdle /\ InitShellEscape
    /\ InitNoConnections
\* The Connections section is about to be printed
InitReport ==
  InitTestrun /\ InitPrintDb /\ InitIdle /\ InitNoShellEscape
    /\ InitConnections

\* print_db(), Connections section
NextConnections ==
  \/ QueryConnections
  \/ PrintConnection
  \/ CloseConnection

\* shell_escape(s)
NextShellEscape ==
  \/ ShellEscape

\* link_to_corr(), several invocations against one registry
NextPublish ==
  \/ \E p \in Procs : LinkToCorr(p)
  \/ \E p \in Procs : HttpGet(p)
  \/ \E p \in Procs : PutProject(p)
  \/ \E p \in Procs : PushRecord(p)
  \/ \E p \in Procs : UploadFile(p)

SpecTestrun == Init /\ [][NextTestrun]_vars
SpecPrintDb == Init /\ [][NextPrintDb]_vars
SpecTrace == InitPipeline /\ [][NextTrace]_vars
SpecPublish == InitPublishers /\ [][NextPublish]_vars
SpecShellEscape == InitEscape /\ [][NextShellEscape]_vars
SpecConnections == InitReport /\ [][NextConnections]_vars

\* ------------------------------------------------------------------------
\* Properties of testrun
\* ------------------------------------------------------------------------

Finished == t_pc = "done"
EngineReturned == c /= Null
Warnings == SelectSeq(t_out, LAMBDA it : it.kind \in {"signal", "code"})
Reports == SelectSeq(t_out, LAMBDA it : it.kind = "print_db")
\* x has bit 0x0100 set, computed by division
Signalled(x) == (x \div 256) % 2 = 1

\* C1 as stated: whenever testrun has finished, whatever the engine and the
\* report step did, the temporary store file no longer exists.
C1_StoreGoneOnEveryRun == Finished => ~database

\* C1, amended: whenever testrun has finished, database.remove() has been
\* called exactly once, and the file no longer exists unless that call
\* itself raised.
C1_StoreRemovedUnlessRemoveRaises ==
  Finished => /\ Len(t_remove) = 1
              /\ (t_remove = <<"ok">> => ~database)

C1_Witness ==
  Finished /\ t_exc = "engine" /\ t_remove = <<"ok">> /\ ~database

\* C3: once the warning step has run, status 0 printed no warning, a
\* status with bit 0x0100 printed exactly the signal warning with c & 0xFF,
\* any other status printed exactly the non-zero-code warning with the low
\* 8 bits of c; at no time is more than one warning printed.
C3_ExitWarning ==
  /\ Len(Warnings) <= 1
  /\ (t_pc \in {"finally", "done"} /\ EngineReturned /\ t_exc = None) =>
       Warnings = IF c = 0 THEN <<>>
                  ELSE IF Signalled(c)
                       THEN <<Item("signal", Decimal(c % 256))>>
                       ELSE <<Item("code", Decimal(c % 256))>>

C3_Witness ==
  Finished /\ c = 265 /\ Warnings = <<Item("signal", <<"9">>)>>

\* C4 as stated: for every status the engine returned, print_db is called
\* exactly once, before any warning, and testrun returns normally.
C4_AlwaysReturnsNormally ==
  (Finished /\ EngineReturned) =>
     /\ Len(Reports) = 1
     /\ \A i \in 1 .. Len(t_out) :
          t_out[i].kind \in {"signal", "code"} =>
            \E j \in 1 .. (i - 1) : t_out[j].kind = "print_db"
     /\ t_result = "returned"

\* C4, amended: for every status the engine returned, print_db is called
\* exactly once, before any warning, no error arises from the status (the
\* only error in flight can be one raised by print_db), and testrun returns
\* normally unless print_db or the removal of the store raised.
C4_StatusNeverFailsTestrun ==
  (Finished /\ EngineReturned) =>
     /\ Len(Reports) = 1
     /\ \A i \in 1 .. Len(t_out) :
          t_out[i].kind \in {"signal", "code"} =>
            \E j \in 1 .. (i - 1) : t_out[j].kind = "print_db"
     /\ t_exc \in {None, "report"}
     /\ (t_exc = None /\ t_remove = <<"ok">>) => t_result = "returned"
     /\ t_result \in {"returned", "report", "remove"}

C4_Witness ==
  /\ Finished
  /\ c = 2
  /\ t_result = "returned"
  /\ t_out = <<Item("rule", <<>>), Item("print_db", <<>>),
               Item("code", <<"2">>)>>

\* C5: when the engine raised, testrun ends by raising that engine error,
\* and neither a report nor an exit-status warning was printed.
C5_EngineFailurePropagates ==
  (Finished /\ t_exc = "engine") =>
     /\ t_result = "engine"
     /\ Reports = <<>>
     /\ Warnings = <<>>

\* C6: when an error was in flight (engine or report) at the time the
\* store was removed, the error that leaves testrun is that earlier error,
\* also when the removal itself raised.
C6_RemovalDoesNotMask ==
  (Finished /\ t_exc /= None) => t_result = t_exc

\* ------------------------------------------------------------------------
\* Properties of the Processes section
\* ------------------------------------------------------------------------

\* C2: the exit column of a printed row is "sig" and the signal number
\* s & 0xFF when bit 0x0100 of the status is set, and the plain exit code
\* without "sig" when it is clear.
C2_ExitColumn ==
  p_rows > 0 =>
    p_line.f_exit =
      IF Signalled(r_exit)
      THEN <<" ", "s", "i", "g">> \o LeftAlign(Decimal(r_exit % 256), 2)
             \o <<" ">>
      ELSE <<" ", " ", " ", " ">> \o LeftAlign(Decimal(r_exit), 2)
             \o <<" ">>

\* ------------------------------------------------------------------------
\* Properties of the trace subcommand and of the registry client
\* ------------------------------------------------------------------------

Stages == <<"trace", "write_configuration", "pack", "link_to_corr">>
StagesCalled(p) == [i \in 1 .. Len(calls[p]) |-> calls[p][i].stage]
IsPrefix(a, b) == Len(a) <= Len(b) /\ \A i \in 1 .. Len(a) : a[i] = b[i]
Last(q) == q[Len(q)]
\* A registry configuration path was supplied to invocation p
Supplied(p) == config_path[p] = "corr.json"
\* status is one of 200..299
SuccessStatus(status) == status >= 200 /\ status <= 299

\* C7: the stages are called in the order trace, write_configuration, pack,
\* link_to_corr, each only after every earlier one returned; once one of
\* the first three raised no later stage is called and no registry request
\* is issued.
C7_StagesInOrder ==
  \A p \in Procs :
    /\ IsPrefix(StagesCalled(p), Stages)
    /\ \A i \in 1 .. (Len(calls[p]) - 1) : calls[p][i].ev = "returned"
    /\ (\E i \in 1 .. Len(calls[p]) : calls[p][i].ev = "raised") =>
         /\ requests[p] = <<>>
         /\ pc[p] = "done"
         /\ outcome[p] \in {"TraceError", "ConfigError", "PackError"}
    /\ requests[p] /= <<>> => StagesCalled(p) = Stages

C7_Witness ==
  \E p \in Procs :
    /\ outcome[p] = "PackError"
    /\ StagesCalled(p) = <<"trace", "write_configuration", "pack">>
    /\ requests[p] = <<>>

\* C8: without a configuration path link_to_corr issues no request, prints
\* that no configuration was provided and returns; with one, a request is
\* issued and the first request is the project list GET.
C8_PublishIffConfigured ==
  \A p \in Procs :
    /\ requests[p] /= <<>> =>
         /\ Supplied(p)
         /\ requests[p][1].call = "list"
    /\ (pc[p] = "done" /\ StagesCalled(p) = Stages) =>
         IF Supplied(p)
         THEN requests[p] /= <<>>
         ELSE /\ requests[p] = <<>>
              /\ stdout[p] = <<Printed("no_config", "", "")>>
              /\ outcome[p] = "returned"

C8_Witness ==
  \E p \in Procs :
    /\ pc[p] = "done"
    /\ config_path[p] = None
    /\ StagesCalled(p) = Stages
    /\ stdout[p] = <<Printed("no_config", "", "")>>
    /\ outcome[p] = "returned"

\* C9: a list-projects or create-record request answered with a status
\* outside 200..299 is the last request of its invocation, and its
\* response body is the last thing printed.
C9_FailedCallAborts ==
  \A p \in Procs :
    \A i \in 1 .. Len(requests[p]) :
      LET q == requests[p][i]
      IN (q.call \in {"list", "create_record"} /\ ~SuccessStatus(q.status)) =>
           /\ i = Len(requests[p])
           /\ stdout[p] /= <<>>
           /\ Last(stdout[p]) = Printed("body", q.call, q.body)
           /\ pc[p] = "done"

C9_Witness ==
  \E p \in Procs :
    /\ Len(requests[p]) = 3
    /\ requests[p][3].call = "create_record"
    /\ requests[p][3].status = 500
    /\ Last(stdout[p]) = Printed("body", "create_record", requests[p][3].body)
    /\ pc[p] = "done"

\* C10: a list-projects or create-record request answered with any status
\* in 200..299 and a well-formed body is followed by the next request of
\* the protocol, and one answered with any other status is the last
\* request, with its body printed.
C10_Every2xxIsSuccess ==
  \A p \in Procs :
    \A i \in 1 .. Len(requests[p]) :
      LET q == requests[p][i]
      IN q.call \in {"list", "create_record"} =>
           IF SuccessStatus(q.status)
           THEN (q.body = "ok" /\ pc[p] = "done") => Len(requests[p]) > i
           ELSE /\ i = Len(requests[p])
                /\ Last(stdout[p]) = Printed("body", q.call, q.body)

\* ------------------------------------------------------------------------
\* Properties of the registry protocol
\* ------------------------------------------------------------------------

\* The client took the answer as a project list: status 200, well-formed
ListTaken(p) ==
  /\ requests[p] /= <<>>
  /\ requests[p][1].status = 200
  /\ requests[p][1].body = "ok"
Listed(p) == requests[p][1].content
CallsOf(p, call) == {i \in 1 .. Len(requests[p]) : requests[p][i].call = call}
\* name occurs in list, compared exactly
NameIn(list, name) == \E i \in 1 .. Len(list) : list[i].name = name
\* id of the first project of list called name
FirstId(list, name) ==
  list[CHOOSE i \in 1 .. Len(list) :
         /\ list[i].name = name
         /\ \A j \in 1 .. (i - 1) : list[j].name /= name].id
NamedInRegistry(name) == {i \in 1 .. Len(projects) : projects[i].name = name}
\* p issued its last request, and ended, before q issued its first
Sequential(p, q) ==
  /\ pc[p] = "done"
  /\ requests[p] /= <<>>
  /\ requests[q] /= <<>>
  /\ Last(requests[p]).seq < requests[q][1].seq

\* C11: in an invocation that took its project list, the request after the
\* list is create-project iff no listed project has exactly the requested
\* name; with a match no create-project is issued and the record is
\* created under the first match's id.  When one publish resolved its
\* project and ended before a second one with the same name listed, the
\* second issues no create-project and the registry holds exactly one
\* project of that name.
C11_GetOrCreate ==
  /\ \A p \in Procs :
       ListTaken(p) =>
         LET found == NameIn(Listed(p), project_name[p])
         IN /\ Len(requests[p]) = 1 =>
                 pc[p] = IF found THEN "push_record" ELSE "put_project"
            /\ Len(requests[p]) >= 2 =>
                 requests[p][2].call =
                   IF found THEN "create_record" ELSE "create_project"
            /\ found =>
                 /\ CallsOf(p, "create_project") = {}
                 /\ project[p] = FirstId(Listed(p), project_name[p])
                 /\ \A i \in CallsOf(p, "create_record") :
                      requests[p][i].arg = FirstId(Listed(p), project_name[p])
  /\ \A p, q \in Procs :
       (/\ p /= q
        /\ project_name[p] = project_name[q]
        /\ Sequential(p, q)
        /\ project[p] /= Null
        /\ ListTaken(q)) =>
          /\ CallsOf(q, "create_project") = {}
          /\ Cardinality(NamedInRegistry(project_name[p])) = 1

C11_Witness ==
  \E p, q \in Procs :
    /\ p /= q
    /\ project_name[p] = project_name[q]
    /\ Sequential(p, q)
    /\ CallsOf(p, "create_project") /= {}
    /\ pc[q] = "done"
    /\ CallsOf(q, "create_project") = {}
    /\ \E i \in CallsOf(q, "create_record") : requests[q][i].arg = project[p]
    /\ Cardinality(NamedInRegistry(project_name[p])) = 1

Rank(call) == CASE call = "list" -> 1 [] call = "create_project" -> 2
                [] call = "create_record" -> 3 [] call = "upload" -> 4
\* link_to_corr of invocation p has been entered
Publishing(p) ==
  pc[p] \in {"http_get", "put_project", "push_record", "upload_file"}
    \/ (pc[p] = "done" /\ Len(calls[p]) = 4)

\* C12: a create-project request answered with a status outside 200..299
\* is the last request of its invocation (no create-record, no upload),
\* and its response body is printed.
C12_FailedCreateProjectAborts ==
  \A p \in Procs :
    \A i \in CallsOf(p, "create_project") :
      ~SuccessStatus(requests[p][i].status) =>
        /\ i = Len(requests[p])
        /\ Last(stdout[p]) =
             Printed("body", "create_project", requests[p][i].body)

\* C14: within one invocation every endpoint is requested at most once,
\* in the order list, create-project, create-record, upload; a
\* create-project is issued only when the list held no project of the
\* name; an upload directly follows a create-record answered 200 with a
\* well-formed body and carries the record id of that answer.
C14_RequestOrder ==
  \A p \in Procs :
    /\ \A i, j \in 1 .. Len(requests[p]) :
         i < j => Rank(requests[p][i].call) < Rank(requests[p][j].call)
    /\ requests[p] /= <<>> => requests[p][1].call = "list"
    /\ \A i \in CallsOf(p, "create_project") :
         ~NameIn(Listed(p), project_name[p])
    /\ \A i \in CallsOf(p, "upload") :
         /\ i > 1
         /\ requests[p][i - 1].call = "create_record"
         /\ requests[p][i - 1].status = 200
         /\ requests[p][i - 1].body = "ok"
         /\ requests[p][i].arg = requests[p][i - 1].content[1].id

C14_Witness ==
  \E p \in Procs :
    /\ Len(requests[p]) = 4
    /\ requests[p][4].call = "upload"
    /\ requests[p][4].arg = requests[p][3].content[1].id
    /\ requests[p][3].arg /= requests[p][4].arg

\* C16: from the moment link_to_corr is entered, no step changes the
\* trace store, the configuration or the bundle of that invocation,
\* whatever the registry answers and whether link_to_corr returns or
\* raises.
C16_PublishKeepsArtifacts ==
  [][\A p \in Procs :
       (pc[p] = "link_to_corr" \/ Publishing(p)) => disk'[p] = disk[p]]_vars

C16_Witness ==
  \E p \in Procs :
    /\ pc[p] = "done"
    /\ outcome[p] \in {"ValueError", "KeyError"}
    /\ Len(requests[p]) = 3
    /\ disk[p].store = "new"
    /\ disk[p].config /= "absent"
    /\ disk[p].bundle = "new"

\* C17: whenever pack is about to be called no bundle.rpz exists, once pack
\* has returned the bundle is the new one, and a bundle is removed only
\* when trace and write_configuration have both returned.
C17_BundleReplaced ==
  /\ [](\A p \in Procs :
          /\ pc[p] = "pack" => disk[p].bundle = "absent"
          /\ (Len(calls[p]) >= 3 /\ calls[p][3].ev = "returned") =>
               disk[p].bundle = "new")
  /\ [][\A p \in Procs :
          (disk[p].bundle /= "absent" /\ disk'[p].bundle = "absent") =>
            /\ Len(calls[p]) = 2
            /\ calls[p][1].ev = "returned"
            /\ calls[p][2].ev = "returned"
            /\ pc'[p] = "pack"]_vars

C17_Witness ==
  \E p \in Procs :
    /\ Len(calls[p]) >= 3
    /\ calls[p][3] = Call("pack", "returned")
    /\ disk[p].config = "old"
    /\ disk[p].bundle = "new"

\* C20: a list, create-project or create-record request answered with a
\* malformed body is the last request of its invocation, the body is
\* printed, and link_to_corr returns instead of raising.
C20_MalformedBodyHandled ==
  \A p \in Procs :
    \A i \in 1 .. Len(requests[p]) :
      LET q == requests[p][i]
      IN (q.call \in {"list", "create_project", "create_record"}
            /\ q.body /= "ok") =>
           /\ i = Len(requests[p])
           /\ Last(stdout[p]) = Printed("body", q.call, q.body)
           /\ outcome[p] = "returned"

\* p and q publish the same name and neither was shown a project of it
BothListedWithout(p, q) ==
  /\ p /= q
  /\ project_name[p] = project_name[q]
  /\ ListTaken(p) /\ ~NameIn(Listed(p), project_name[p])
  /\ ListTaken(q) /\ ~NameIn(Listed(q), project_name[q])
CreateAccepted(p) ==
  \E i \in CallsOf(p, "create_project") : SuccessStatus(requests[p][i].status)

\* C13: two invocations publishing the same name that were both handed a
\* list without it both go on to the create endpoint, and once the
\* registry has carried out both creations it holds at least two projects
\* of that name.
C13_RaceDuplicates ==
  \A p, q \in Procs :
    BothListedWithout(p, q) =>
      /\ \A x \in {p, q} :
           pc[x] = "put_project" \/ CallsOf(x, "create_project") /= {}
      /\ (CreateAccepted(p) /\ CreateAccepted(q)) =>
           Cardinality(NamedInRegistry(project_name[p])) >= 2

C13_Witness ==
  \E p, q \in Procs :
    /\ BothListedWithout(p, q)
    /\ CreateAccepted(p) /\ CreateAccepted(q)
    /\ requests[p][1].seq < requests[q][2].seq
    /\ requests[q][1].seq < requests[p][2].seq
    /\ Cardinality(NamedInRegistry(project_name[p])) = 2

\* ------------------------------------------------------------------------
\* Properties of shell_escape
\* ------------------------------------------------------------------------

Quote == "\""
Backslash == "\\"
\* the characters written with a backslash in front
Escapable == {Backslash, Quote, "$"}
\* str with each escapable character preceded by a backslash
RECURSIVE Protected(_)
Protected(str) ==
  IF str = <<>> THEN <<>>
  ELSE (IF Head(str) \in Escapable THEN <<Backslash, Head(str)>>
        ELSE <<Head(str)>>) \o Protected(Tail(str))
\* str read from the left, a backslash and the escapable character after
\* it standing for that character
RECURSIVE Unescape(_)
Unescape(str) ==
  IF str = <<>> THEN <<>>
  ELSE IF Head(str) = Backslash /\ Len(str) >= 2 /\ str[2] \in Escapable
       THEN <<str[2]>> \o Unescape(SubSeq(str, 3, Len(str)))
       ELSE <<Head(str)>> \o Unescape(Tail(str))
Unquoted(str) == SubSeq(str, 2, Len(str) - 1)
Plain(str) ==
  \A i \in 1 .. Len(str) :
    str[i] \notin {" ", "\t", "\n", "*", "$", Backslash, Quote, "'"}

\* C18: shell_escape returns a token without whitespace and without
\* * $ \ " ' unchanged; any other token comes back between double quotes
\* with every backslash, double quote and dollar sign preceded by a
\* backslash, and taking the quotes off and un-escaping gives the token.
C18_ShellEscapeRoundTrip ==
  s_pc = "returned" =>
    IF Plain(s_arg)
    THEN escaped = s_arg
    ELSE /\ Len(escaped) >= 2
         /\ Head(escaped) = Quote
         /\ escaped[Len(escaped)] = Quote
         /\ Unquoted(escaped) = Protected(s_arg)
         /\ Unescape(Unquoted(escaped)) = s_arg

C18_Witness ==
  /\ s_pc = "returned"
  /\ s_arg = <<Backslash, Quote, "$">>
  /\ escaped = <<Quote, Backslash, Backslash, Backslash, Quote,
                 Backslash, "$", Quote>>

\* ------------------------------------------------------------------------
\* Properties of the Connections section
\* ------------------------------------------------------------------------

Lines == 1 .. Len(k_out)
LinesOf(row, kind) ==
  {i \in Lines : k_out[i].row = row /\ k_out[i].kind = kind}
Titles(text) == {i \in Lines : k_out[i].kind = "title" /\ k_out[i].text = text}
\* the text of the last line of the kind at or above line i, None if none
Heading(i, kind) ==
  LET above == {j \in 1 .. i : k_out[j].kind = kind}
  IN IF above = {} THEN None
     ELSE k_out[CHOOSE j \in above : \A l \in above : l <= j].text
\* row is the first of its directionality group, of its family group
OpensDirection(row) ==
  row = 1 \/ connections[row].inbound /= connections[row - 1].inbound
OpensFamily(row) ==
  OpensDirection(row)
    \/ connections[row].family /= connections[row - 1].family
Fetched == k_pc \in {"rows", "closed"}

\* C15: the loop is handed each distinct (inbound, family, protocol,
\* address) of the table once; every row gone through has printed exactly
\* one address line, its own, under the title, family and protocol of that
\* row; each title is printed once iff the table has a row of that
\* directionality, as the first line of the first such row, and no line of
\* an outbound row follows the "Incoming connections" title; a family
\* header is printed only on a row that opens its directionality group or
\* differs in family from the row before, a protocol header only on a row
\* that opens its family group or differs in protocol from the row before.
C15_ConnectionsReport ==
  /\ Fetched =>
       /\ {connections[k] : k \in 1 .. Len(connections)} = Distinct(conn_table)
       /\ Len(connections) = Cardinality(Distinct(conn_table))
  /\ \A i, j \in Lines : i < j => k_out[i].row <= k_out[j].row
  /\ \A i \in Lines : k_out[i].row \in 1 .. k_rows
  /\ \A row \in 1 .. k_rows :
       LET r == connections[row]
       IN /\ Cardinality(LinesOf(row, "address")) = 1
          /\ Cardinality(LinesOf(row, "title")) <= 1
          /\ Cardinality(LinesOf(row, "family")) <= 1
          /\ Cardinality(LinesOf(row, "protocol")) <= 1
          /\ \A i \in LinesOf(row, "address") :
               /\ k_out[i].text = r.address
               /\ Heading(i, "title") = Title(r.inbound)
               /\ Heading(i, "family") = r.family
               /\ Heading(i, "protocol") = r.protocol
               /\ \A j \in Lines : k_out[j].row = row => j <= i
          /\ \A i \in LinesOf(row, "title") :
               /\ \A j \in 1 .. (row - 1) : connections[j].inbound /= r.inbound
               /\ \A j \in Lines : k_out[j].row = row => i <= j
               /\ r.inbound = 1 =>
                    \A j \in Lines :
                      connections[k_out[j].row].inbound = 0 => j < i
          /\ LinesOf(row, "family") /= {} =>
               OpensDirection(row)
                 \/ r.family /= connections[row - 1].family
          /\ LinesOf(row, "protocol") /= {} =>
               OpensFamily(row)
                 \/ r.protocol /= connections[row - 1].protocol
  /\ k_pc = "closed" =>
       \A d \in Directions :
         Cardinality(Titles(Title(d))) =
           IF \E k \in 1 .. Len(conn_table) : conn_table[k].inbound = d
           THEN 1 ELSE 0

C15_Witness ==
  /\ k_pc = "closed"
  /\ Len(conn_table) = 3
  /\ conn_table[1] = conn_table[2]
  /\ conn_table[1].inbound = 0
  /\ conn_table[3].inbound = 1
  /\ Len(k_out) = 8
  /\ Cardinality({i \in Lines : k_out[i].kind = "address"}) = 2

\* C19: a row whose directionality differs from the row before prints a
\* family header and a protocol header, and a row whose family differs
\* from the row before prints a protocol header, whatever the family and
\* protocol of the row before.
C19_GroupStateReset ==
  \A row \in 2 .. k_rows :
    /\ connections[row].inbound /= connections[row - 1].inbound =>
         /\ LinesOf(row, "family") /= {}
         /\ LinesOf(row, "protocol") /= {}
    /\ connections[row].family /= connections[row - 1].family =>
         LinesOf(row, "protocol") /= {}

C19_Witness ==
  /\ k_rows = 3
  /\ connections[1].inbound = connections[2].inbound
  /\ connections[1].family /= connections[2].family
  /\ connections[1].protocol = connections[2].protocol
  /\ LinesOf(2, "protocol") /= {}
  /\ connections[2].inbound /= connections[3].inbound
  /\ connections[2].family = connections[3].family
  /\ connections[2].protocol = connections[3].protocol
  /\ LinesOf(3, "family") /= {}
  /\ LinesOf(3, "protocol") /= {}

\* ------------------------------------------------------------------------
\* Properties of record creation
\* ------------------------------------------------------------------------

\* the records the registry holds under a project id
RecordsUnder(id) == {i \in 1 .. Len(records) : records[i].project = id}
\* every request of p was answered 200 with a well-formed body, up to and
\* including the upload
Published(p) ==
  /\ CallsOf(p, "upload") /= {}
  /\ \A i \in 1 .. Len(requests[p]) :
       requests[p][i].status = 200 /\ requests[p][i].body = "ok"

\* C21: an invocation that took its list and resolved a project issues
\* exactly one create-record request, whatever the registry already
\* holds; two sequential publications of one name that both went through
\* leave two different records under one project; and a record whose
\* upload was refused stays in the registry with no file attached.
C21_RecordPerPublish ==
  /\ \A p \in Procs :
       /\ Cardinality(CallsOf(p, "create_record")) <= 1
       /\ (ListTaken(p) /\ project[p] /= Null) =>
            \/ pc[p] = "push_record"
            \/ Cardinality(CallsOf(p, "create_record")) = 1
       /\ \A i \in CallsOf(p, "upload") :
            ~SuccessStatus(requests[p][i].status) =>
              /\ requests[p][i].arg \in 1 .. Len(records)
              /\ records[requests[p][i].arg].files = 0
  /\ \A p, q \in Procs :
       (Sequential(p, q) /\ project_name[p] = project_name[q]
          /\ Published(p) /\ Published(q)) =>
         /\ project[p] = project[q]
         /\ record_id[p] /= record_id[q]
         /\ {record_id[p], record_id[q]} \subseteq RecordsUnder(project[p])
         /\ Cardinality(NamedInRegistry(project_name[p])) = 1

C21_Witness ==
  \E p, q \in Procs :
    /\ Sequential(p, q)
    /\ project_name[p] = project_name[q]
    /\ Published(p)
    /\ CallsOf(q, "upload") /= {}
    /\ ~SuccessStatus(Last(requests[q]).status)
    /\ Cardinality(RecordsUnder(project[p])) = 2
    /\ records[record_id[p]].files = 1
    /\ records[record_id[q]].files = 0

====
